---- MODULE Spec2Model ----
(***************************************************************************)
(* Air-Scribble armband (src/mngrag.py): a reader thread (serial or UDP)   *)
(* parses sensor lines and puts samples on a queue; the pygame main loop   *)
(* drains the queue each tick, keeps the latest sample, updates the pen    *)
(* state with hysteresis, estimates a target position, smooths it and      *)
(* draws.                                                                  *)
(*                                                                         *)
(* Numbers.  Python floats are represented in fixed point:                 *)
(*   - a parsed token (emg, yaw, pitch, ax, ...) is an integer count of    *)
(*     hundredths (Centi), so "426.01" is 42601;                           *)
(*   - a screen position is an integer count of 1/PosUnit pixels, with     *)
(*     PosUnit = SMOOTHING_DEN^MaxPush, which keeps MaxPush successive     *)
(*     smoothing steps of whole-pixel targets exact.                       *)
(* Text.  A line is a sequence of one-character strings.                   *)
(***************************************************************************)
EXTENDS Integers, Sequences, FiniteSets, TLC

\* ---------------------------------------------------------------- bounds
MaxPush == 3
MaxEvents == 1
MaxTokens == 8

\* ------------------------------------------------------ program constants
EMG_THRESHOLD == 400
EMG_HYSTERESIS == 25
SENSITIVITY == 200
SMOOTHING_NUM == 17
SMOOTHING_DEN == 20
screen_w == 1280
screen_h == 720
pen_radius == 3

None == <<>>

\* ------------------------------------------------------------ fixed point
Centi == 10 ^ 2
PosUnit == SMOOTHING_DEN ^ MaxPush

\* floor(a * b / c) for b >= 0, c > 0, without forming a * b
MulDiv(a, b, c) == (a \div c) * b + ((a % c) * b) \div c

Min(a, b) == IF a < b THEN a ELSE b
Max(a, b) == IF a > b THEN a ELSE b

\* Python int(x) of a position: truncation toward zero, in whole pixels
PyInt(p) == IF p >= 0 THEN p \div PosUnit ELSE -((-p) \div PosUnit)

\* ------------------------------------------------------------------ text
Whitespace == {" ", "\t", "\n", "\r"}
DigitChars == {"0", "1", "2", "3", "4", "5", "6", "7", "8", "9"}
DigitVal == ("0" :> 0) @@ ("1" :> 1) @@ ("2" :> 2) @@ ("3" :> 3) @@ ("4" :> 4)
            @@ ("5" :> 5) @@ ("6" :> 6) @@ ("7" :> 7) @@ ("8" :> 8) @@ ("9" :> 9)

RECURSIVE LStrip(_)
LStrip(s) == IF s # <<>> /\ Head(s) \in Whitespace THEN LStrip(Tail(s)) ELSE s

RECURSIVE RStrip(_)
RStrip(s) ==
    IF s # <<>> /\ s[Len(s)] \in Whitespace THEN RStrip(SubSeq(s, 1, Len(s) - 1)) ELSE s

\* str.strip()
Strip(s) == RStrip(LStrip(s))

\* str.replace(',', ' ')
ReplaceComma(s) == [i \in 1..Len(s) |-> IF s[i] = "," THEN " " ELSE s[i]]

\* str.split(): the maximal runs of non-whitespace characters, in order
RECURSIVE SplitFrom(_, _, _)
SplitFrom(s, cur, acc) ==
    IF s = <<>>
    THEN IF cur = <<>> THEN acc ELSE Append(acc, cur)
    ELSE IF Head(s) \in Whitespace
         THEN SplitFrom(Tail(s), <<>>, IF cur = <<>> THEN acc ELSE Append(acc, cur))
         ELSE SplitFrom(Tail(s), Append(cur, Head(s)), acc)

Split(s) == SplitFrom(s, <<>>, <<>>)

\* ------------------------------------------------------------- float(p)
\* Accepted here: [sign] digits [. digits] with at least one digit.  The
\* exponent, inf/nan and digit-group forms of Python's float() use characters
\* outside the alphabet the model's lines are written in.
Unsigned(t) == IF t # <<>> /\ Head(t) \in {"+", "-"} THEN Tail(t) ELSE t
Negative(t) == t # <<>> /\ Head(t) = "-"

DotIndexes(u) == {i \in 1..Len(u) : u[i] = "."}
IntDigits(u) ==
    IF DotIndexes(u) = {} THEN u
    ELSE SubSeq(u, 1, (CHOOSE i \in DotIndexes(u) : TRUE) - 1)
FracDigits(u) ==
    IF DotIndexes(u) = {} THEN <<>>
    ELSE SubSeq(u, (CHOOSE i \in DotIndexes(u) : TRUE) + 1, Len(u))

\* float(p) does not raise ValueError
FloatOk(t) ==
    LET u == Unsigned(t) IN
    /\ \A i \in 1..Len(u) : u[i] \in DigitChars \cup {"."}
    /\ Cardinality(DotIndexes(u)) <= 1
    /\ \E i \in 1..Len(u) : u[i] \in DigitChars

RECURSIVE NatOf(_)
NatOf(ds) ==
    IF ds = <<>> THEN 0
    ELSE NatOf(SubSeq(ds, 1, Len(ds) - 1)) * 10 + DigitVal[ds[Len(ds)]]

\* the value of float(p) in hundredths (digits past the second are dropped)
FloatVal(t) ==
    LET u  == Unsigned(t)
        f  == FracDigits(u)
        f1 == IF Len(f) >= 1 THEN DigitVal[f[1]] ELSE 0
        f2 == IF Len(f) >= 2 THEN DigitVal[f[2]] ELSE 0
        m  == NatOf(IntDigits(u)) * Centi + f1 * 10 + f2
    IN IF Negative(t) THEN -m ELSE m

\* ------------------------------------------------------------ parse_line
RawSample(nums) ==
    [emg |-> nums[1], type |-> "raw",
     acc |-> <<nums[2], nums[3], nums[4]>>,
     gyro |-> <<nums[5], nums[6], nums[7]>>,
     orient |-> None]

OrientSampleNoPayload(nums) ==
    [emg |-> nums[1], type |-> "orient", acc |-> None, gyro |-> None, orient |-> None]

OrientSample(nums) ==
    [emg |-> nums[1], type |-> "orient",
     acc |-> None, gyro |-> None,
     orient |-> <<nums[2], nums[3], nums[4]>>]

parse_line_checks_used_tokens(ln) ==
    LET s     == Strip(ln)
        parts == Split(ReplaceComma(s))
        used  == IF Len(parts) >= 7 THEN 7 ELSE IF Len(parts) >= 4 THEN 4 ELSE Len(parts)
    IN IF s = <<>> THEN None
       ELSE IF \E i \in 1..used : ~FloatOk(parts[i]) THEN None
       ELSE LET nums == [i \in 1..used |-> FloatVal(parts[i])]
            IN IF Len(parts) >= 7 THEN RawSample(nums)
               ELSE IF Len(parts) >= 4 THEN OrientSample(nums)
               ELSE None

parse_line(ln) ==
    LET s     == Strip(ln)
        parts == Split(ReplaceComma(s))
    IN IF s = <<>> THEN None
       ELSE IF \E i \in 1..Len(parts) : ~FloatOk(parts[i]) THEN None
       ELSE LET nums == [i \in 1..Len(parts) |-> FloatVal(parts[i])]
            IN IF Len(nums) >= 7 THEN RawSample(nums)
               ELSE IF Len(nums) >= 4 THEN OrientSample(nums)
               ELSE None

\* ------------------------------------------------------ motion estimation
orient_to_xy_clamped(yaw, pitch, roll, w, h) ==
    LET x == MulDiv(yaw * (PosUnit \div Centi), w \div 2, 180) + (w \div 2) * PosUnit
        y == -MulDiv(pitch * (PosUnit \div Centi), h \div 2, 90) + (h \div 2) * PosUnit
    IN <<Max(0, Min((w - 1) * PosUnit, x)), Max(0, Min((h - 1) * PosUnit, y))>>

\* orient_to_xy: angles in hundredths of a degree, result in 1/PosUnit pixels
orient_to_xy(yaw, pitch, roll, w, h) ==
    LET x == MulDiv(yaw * (PosUnit \div Centi), w \div 2, 180) + (w \div 2) * PosUnit
        y == -MulDiv(pitch * (PosUnit \div Centi), h \div 2, 90) + (h \div 2) * PosUnit
    IN <<x, y>>

\* acc_to_xy: ax, ay in hundredths, sensitivity in pixels per unit
acc_to_xy(ax, ay, az, w, h, lp, sensitivity) ==
    LET dx == MulDiv(ax * sensitivity, PosUnit, Centi)
        dy == -MulDiv(ay * sensitivity, PosUnit, Centi)
        x0 == IF lp = None THEN (w \div 2) * PosUnit + dx ELSE lp[1] + dx
        y0 == IF lp = None THEN (h \div 2) * PosUnit + dy ELSE lp[2] + dy
        x  == Max(0, Min((w - 1) * PosUnit, x0))
        y  == Max(0, Min((h - 1) * PosUnit, y0))
    IN <<x, y>>

SmoothWeightsSwapped(s, t) ==
    LET d == SMOOTHING_DEN
        a == SMOOTHING_DEN - SMOOTHING_NUM
        b == SMOOTHING_NUM
    IN a * (s \div d) + b * (t \div d) + (a * (s % d) + b * (t % d)) \div d

\* s * SMOOTHING + t * (1 - SMOOTHING), i.e. floor((NUM*s + (DEN-NUM)*t) / DEN),
\* formed from quotients and remainders so that no product leaves 32 bits
Smooth(s, t) ==
    LET d == SMOOTHING_DEN
        a == SMOOTHING_NUM
        b == SMOOTHING_DEN - SMOOTHING_NUM
    IN a * (s \div d) + b * (t \div d) + (a * (s % d) + b * (t % d)) \div d

\* the target position of one sample (mngrag.py 231-240)
Target(sample, lp) ==
    IF sample.type = "orient" /\ sample.orient # None
    THEN orient_to_xy(sample.orient[1], sample.orient[2], sample.orient[3],
                      screen_w, screen_h)
    ELSE IF sample.type = "raw" /\ sample.acc # None
    THEN acc_to_xy(sample.acc[1], sample.acc[2], sample.acc[3],
                   screen_w, screen_h, lp, SENSITIVITY \div 10)
    ELSE lp

\* -------------------------------------------------------------- pen state
PenNextFlipAtBand(pen, emg, threshold) ==
    IF ~pen /\ emg >= threshold + EMG_HYSTERESIS * Centi THEN TRUE
    ELSE IF pen /\ emg <= threshold - EMG_HYSTERESIS * Centi THEN FALSE
    ELSE pen

\* the hysteresis update (mngrag.py 226-229)
PenNext(pen, emg, threshold) ==
    IF ~pen /\ emg > threshold + EMG_HYSTERESIS * Centi THEN TRUE
    ELSE IF pen /\ emg < threshold - EMG_HYSTERESIS * Centi THEN FALSE
    ELSE pen

\* ---------------------------------------------------------------- drawing
Circle(p) == [op |-> "circle", at |-> <<PyInt(p[1]), PyInt(p[2])>>, r |-> pen_radius]
Line(p0, p1) ==
    [op |-> "line", from |-> <<PyInt(p0[1]), PyInt(p0[2])>>,
     to |-> <<PyInt(p1[1]), PyInt(p1[2])>>, width |-> pen_radius * 2]

DrawnAlways(cv, pen, lp, curr) == cv \o <<Circle(curr), Line(lp, curr)>>

\* the canvas after the tick's draw calls (mngrag.py 247-250)
Drawn(cv, pen, lp, curr) ==
    IF pen THEN cv \o <<Circle(curr), Line(lp, curr)>> ELSE cv

\* ------------------------------------------------- what the sensor sends
DigitChar == <<"0", "1", "2", "3", "4", "5", "6", "7", "8", "9">>

RECURSIVE NatText(_)
NatText(n) ==
    IF n < 10 THEN <<DigitChar[n + 1]>>
    ELSE Append(NatText(n \div 10), DigitChar[(n % 10) + 1])

\* decimal text of a value given in hundredths: 42601 is "426.01", -500 is "-5"
FmtCenti(v) ==
    LET m == IF v < 0 THEN -v ELSE v
        f == m % Centi
    IN (IF v < 0 THEN <<"-">> ELSE <<>>)
       \o NatText(m \div Centi)
       \o (IF f = 0 THEN <<>>
           ELSE <<".", DigitChar[(f \div 10) + 1], DigitChar[(f % 10) + 1]>>)

RECURSIVE Join(_, _)
Join(toks, sep) ==
    IF toks = <<>> THEN <<>>
    ELSE IF Len(toks) = 1 THEN toks[1]
    ELSE toks[1] \o sep \o Join(Tail(toks), sep)

CsvLine(vals) == Join([i \in 1..Len(vals) |-> FmtCenti(vals[i])], <<",">>) \o <<"\n">>

\* readings of the armband, in hundredths: emg,yaw,pitch,roll or
\* emg,ax,ay,az,gx,gy,gz
Readings ==
    { <<42601, 72000, 0, 0>>,
      <<42600, 10, 20, 980, 1, 2, 3>>,
      <<42500, 18000, 0, 0>>,
      <<37500, 5000, -5000, 0, 0, 0, 0>>,
      <<37499, -9000, 4500, 200>> }

\* lines no sample comes from
Garbage ==
    { <<"a", "b", "c", " ", "1", " ", "2", " ", "3", "\n">>,
      <<"1", ",", "2", ",", "3", "\n">>,
      <<" ", " ", "\n">> }

Lines == {CsvLine(r) : r \in Readings} \cup Garbage

\* ------------------------------------------------------------------ state
VARIABLES
    mode,           \* args.mode: "serial" or "udp"
    emg_threshold,  \* args.emg_threshold, in hundredths
    b_pc,           \* reader thread: "start", "loop", "read", "done"
    b_exit,         \* how the reader thread ended, "" while it runs
    handle,         \* the reader's transport handle: "none", "open", "closed"
    stop_event,     \* threading.Event
    data_q,         \* queue.Queue: sequence of [seq, data], oldest first
    nPushed,        \* number of q.put calls so far; seq of the newest sample
    pc,             \* main loop: "loop", "drain", "process", "render", "grace", "done"
    running,
    latest,         \* None or the [seq, data] last taken off the queue
    pen_down,
    last_pos,       \* <<x, y>> in 1/PosUnit pixels
    smooth_pos,
    canvas,         \* the draw calls since the last clear, oldest first
    processed,      \* seq of every sample a tick has processed, in order
    drain_start,    \* the queue and nPushed when this tick's drain began
    line,           \* parse_line's argument
    parsed          \* parse_line's result

vars == <<mode, emg_threshold, b_pc, b_exit, handle, stop_event, data_q, nPushed,
          pc, running, latest, pen_down, last_pos, smooth_pos, canvas,
          processed, drain_start, line, parsed>>

backend_vars == <<b_pc, b_exit, handle>>
main_vars == <<pc, running, latest, pen_down, last_pos, smooth_pos, canvas,
               processed, drain_start>>
parse_vars == <<line, parsed>>

Center == <<(screen_w \div 2) * PosUnit, (screen_h \div 2) * PosUnit>>

Init ==
    /\ mode \in {"serial", "udp"}
    /\ emg_threshold = EMG_THRESHOLD * Centi
    /\ b_pc = "start"
    /\ b_exit = ""
    /\ handle = "none"
    /\ stop_event = FALSE
    /\ data_q = <<>>
    /\ nPushed = 0
    /\ pc = "loop"
    /\ running = TRUE
    /\ latest = None
    /\ pen_down = FALSE
    /\ last_pos = Center
    /\ smooth_pos = Center
    /\ canvas = <<>>
    /\ processed = <<>>
    /\ drain_start = None
    /\ line = <<>>
    /\ parsed = None

\* ----------------------------------------------------------- reader thread
\* serial_reader_thread 79-89: pyserial missing or the port does not open
SerialOpenFail ==
    /\ mode = "serial" /\ b_pc = "start"
    /\ \E why \in {"no_pyserial", "open_failed"} : b_exit' = why
    /\ stop_event' = TRUE
    /\ b_pc' = "done"
    /\ UNCHANGED <<mode, emg_threshold, handle, data_q, nPushed, main_vars, parse_vars>>

\* serial_reader_thread 84-85: the port opens
SerialOpen ==
    /\ mode = "serial" /\ b_pc = "start"
    /\ handle' = "open"
    /\ b_pc' = "loop"
    /\ UNCHANGED <<mode, emg_threshold, b_exit, stop_event, data_q, nPushed,
                   main_vars, parse_vars>>

\* udp_reader_thread 106-107: the socket exists, bind raises; nothing catches
\* it, so the thread dies with the socket open and the stop signal untouched
UdpBindFail ==
    /\ mode = "udp" /\ b_pc = "start"
    /\ handle' = "open"
    /\ b_exit' = "bind_failed"
    /\ b_pc' = "done"
    /\ UNCHANGED <<mode, emg_threshold, stop_event, data_q, nPushed, main_vars, parse_vars>>

\* udp_reader_thread 106-109: socket bound
UdpBind ==
    /\ mode = "udp" /\ b_pc = "start"
    /\ handle' = "open"
    /\ b_pc' = "loop"
    /\ UNCHANGED <<mode, emg_threshold, b_exit, stop_event, data_q, nPushed,
                   main_vars, parse_vars>>

BackendCheckStopNever ==
    /\ b_pc = "loop"
    /\ b_pc' = "read"
    /\ UNCHANGED <<mode, emg_threshold, handle, b_exit, stop_event, data_q, nPushed,
                   main_vars, parse_vars>>

\* while not stop_event.is_set(): (91, 110) and the exit after the loop
BackendCheckStop ==
    /\ b_pc = "loop"
    /\ IF stop_event
       THEN /\ handle' = "closed"
            /\ b_exit' = "stopped"
            /\ b_pc' = "done"
       ELSE /\ b_pc' = "read"
            /\ UNCHANGED <<handle, b_exit>>
    /\ UNCHANGED <<mode, emg_threshold, stop_event, data_q, nPushed, main_vars, parse_vars>>

\* readline returns b'' after its timeout (97-98); recvfrom raises
\* socket.timeout (113-114)
BackendTimeout ==
    /\ b_pc = "read"
    /\ b_pc' = "loop"
    /\ UNCHANGED <<mode, emg_threshold, b_exit, handle, stop_event, data_q, nPushed,
                   main_vars, parse_vars>>

BackendReadErrorRetries ==
    /\ b_pc = "read"
    /\ b_exit' = "read_error"
    /\ b_pc' = "loop"
    /\ UNCHANGED <<mode, emg_threshold, handle, stop_event, data_q, nPushed, main_vars,
                   parse_vars>>

\* readline / recvfrom raises (94-96, 115-117): break, then the with-block
\* (90) or sock.close() (122) releases the handle
BackendReadError ==
    /\ b_pc = "read"
    /\ handle' = "closed"
    /\ b_exit' = "read_error"
    /\ b_pc' = "done"
    /\ UNCHANGED <<mode, emg_threshold, stop_event, data_q, nPushed, main_vars, parse_vars>>

PutFront(qq, item, n) == <<[seq |-> n, data |-> item]>> \o qq

\* q.put(parsed)
Put(qq, item, n) == Append(qq, [seq |-> n, data |-> item])

\* a line arrives: parse it and put the sample, if any (93-101, 112-121)
BackendRecv ==
    /\ b_pc = "read"
    /\ nPushed < MaxPush
    /\ \E ln \in Lines :
         LET text == IF mode = "udp" THEN Strip(ln) ELSE ln
             item == parse_line(text)
         IN IF text # <<>> /\ item # None
            THEN /\ data_q' = Put(data_q, item, nPushed + 1)
                 /\ nPushed' = nPushed + 1
            ELSE UNCHANGED <<data_q, nPushed>>
    /\ b_pc' = "loop"
    /\ UNCHANGED <<mode, emg_threshold, b_exit, handle, stop_event, main_vars, parse_vars>>

\* --------------------------------------------------------------- main loop
Events == {"QUIT", "K_ESCAPE", "K_c", "K_s"}
EventBatches == UNION {[1..n -> Events] : n \in 0..MaxEvents}

\* for ev in pygame.event.get(): ... (203-214); st is [running, canvas]
RECURSIVE HandleEvents(_, _)
HandleEvents(evs, st) ==
    IF evs = <<>> THEN st
    ELSE LET ev == Head(evs)
             nx == IF ev \in {"QUIT", "K_ESCAPE"} THEN [st EXCEPT !.running = FALSE]
                   ELSE IF ev = "K_c" THEN [st EXCEPT !.canvas = <<>>]
                   ELSE st
         IN HandleEvents(Tail(evs), nx)

TickBeginKeepsLatest ==
    /\ pc = "loop" /\ running
    /\ \E evs \in EventBatches :
         LET st == HandleEvents(evs, [running |-> running, canvas |-> canvas])
         IN /\ running' = st.running
            /\ canvas' = st.canvas
    /\ drain_start' = [q |-> data_q, pushed |-> nPushed]
    /\ pc' = "drain"
    /\ UNCHANGED <<mode, emg_threshold, backend_vars, stop_event, data_q, nPushed,
                   latest, pen_down, last_pos, smooth_pos, processed, parse_vars>>

\* while running: the events of this frame, then latest = None (201-217)
TickBegin ==
    /\ pc = "loop" /\ running
    /\ \E evs \in EventBatches :
         LET st == HandleEvents(evs, [running |-> running, canvas |-> canvas])
         IN /\ running' = st.running
            /\ canvas' = st.canvas
    /\ latest' = None
    /\ drain_start' = [q |-> data_q, pushed |-> nPushed]
    /\ pc' = "drain"
    /\ UNCHANGED <<mode, emg_threshold, backend_vars, stop_event, data_q, nPushed,
                   pen_down, last_pos, smooth_pos, processed, parse_vars>>

\* what get_nowait leaves on the queue
AfterGet(qq) == Tail(qq)

\* what get_nowait returns
GetItem(qq) == Head(qq)

DrainGetKeepsFirst ==
    /\ pc = "drain"
    /\ data_q # <<>>
    /\ latest' = IF latest = None THEN GetItem(data_q) ELSE latest
    /\ data_q' = AfterGet(data_q)
    /\ UNCHANGED <<mode, emg_threshold, backend_vars, stop_event, nPushed, pc, running,
                   pen_down, last_pos, smooth_pos, canvas, processed, drain_start,
                   parse_vars>>

DrainGetPeeks ==
    /\ pc = "drain"
    /\ data_q # <<>>
    /\ latest' = GetItem(data_q)
    /\ UNCHANGED <<mode, emg_threshold, backend_vars, stop_event, data_q, nPushed, pc,
                   running, pen_down, last_pos, smooth_pos, canvas, processed,
                   drain_start, parse_vars>>

\* while not data_q.empty(): latest = data_q.get_nowait() (218-220)
DrainGet ==
    /\ pc = "drain"
    /\ data_q # <<>>
    /\ latest' = GetItem(data_q)
    /\ data_q' = AfterGet(data_q)
    /\ UNCHANGED <<mode, emg_threshold, backend_vars, stop_event, nPushed, pc, running,
                   pen_down, last_pos, smooth_pos, canvas, processed, drain_start,
                   parse_vars>>

\* data_q.empty() is true: the drain loop ends (218)
DrainDone ==
    /\ pc = "drain"
    /\ data_q = <<>>
    /\ pc' = "process"
    /\ drain_start' = None
    /\ UNCHANGED <<mode, emg_threshold, backend_vars, stop_event, data_q, nPushed,
                   running, latest, pen_down, last_pos, smooth_pos, canvas, processed,
                   parse_vars>>

ProcessNoneLiftsPen ==
    /\ pc = "process"
    /\ latest = None
    /\ pc' = "render"
    /\ pen_down' = FALSE
    /\ UNCHANGED <<mode, emg_threshold, backend_vars, stop_event, data_q, nPushed,
                   running, latest, last_pos, smooth_pos, canvas, processed,
                   drain_start, parse_vars>>

\* if latest is not None: is false (223)
ProcessNone ==
    /\ pc = "process"
    /\ latest = None
    /\ pc' = "render"
    /\ UNCHANGED <<mode, emg_threshold, backend_vars, stop_event, data_q, nPushed,
                   running, latest, pen_down, last_pos, smooth_pos, canvas, processed,
                   drain_start, parse_vars>>

ProcessSampleLastIsTarget ==
    /\ pc = "process"
    /\ latest # None
    /\ LET s    == latest.data
           pen  == PenNext(pen_down, s.emg, emg_threshold)
           tgt  == Target(s, last_pos)
           curr == <<Smooth(smooth_pos[1], tgt[1]), Smooth(smooth_pos[2], tgt[2])>>
       IN /\ pen_down' = pen
          /\ smooth_pos' = curr
          /\ canvas' = Drawn(canvas, pen, last_pos, curr)
          /\ last_pos' = tgt
    /\ processed' = Append(processed, latest.seq)
    /\ pc' = "render"
    /\ UNCHANGED <<mode, emg_threshold, backend_vars, stop_event, data_q, nPushed,
                   running, latest, drain_start, parse_vars>>

\* if latest is not None: pen, target, smoothing, drawing (223-252)
ProcessSample ==
    /\ pc = "process"
    /\ latest # None
    /\ LET s    == latest.data
           pen  == PenNext(pen_down, s.emg, emg_threshold)
           tgt  == Target(s, last_pos)
           curr == <<Smooth(smooth_pos[1], tgt[1]), Smooth(smooth_pos[2], tgt[2])>>
       IN /\ pen_down' = pen
          /\ smooth_pos' = curr
          /\ canvas' = Drawn(canvas, pen, last_pos, curr)
          /\ last_pos' = curr
    /\ processed' = Append(processed, latest.seq)
    /\ pc' = "render"
    /\ UNCHANGED <<mode, emg_threshold, backend_vars, stop_event, data_q, nPushed,
                   running, latest, drain_start, parse_vars>>

\* screen.fill, blit, flip, clock.tick (254-262)
Render ==
    /\ pc = "render"
    /\ pc' = "loop"
    /\ UNCHANGED <<mode, emg_threshold, backend_vars, stop_event, data_q, nPushed,
                   running, latest, pen_down, last_pos, smooth_pos, canvas, processed,
                   drain_start, parse_vars>>

\* the loop ends; stop_event.set() (201, 265)
Shutdown ==
    /\ pc = "loop" /\ ~running
    /\ stop_event' = TRUE
    /\ pc' = "grace"
    /\ UNCHANGED <<mode, emg_threshold, backend_vars, data_q, nPushed, running, latest,
                   pen_down, last_pos, smooth_pos, canvas, processed, drain_start,
                   parse_vars>>

ExitJoinsReader ==
    /\ pc = "grace"
    /\ b_pc = "done"
    /\ pc' = "done"
    /\ UNCHANGED <<mode, emg_threshold, backend_vars, stop_event, data_q, nPushed,
                   running, latest, pen_down, last_pos, smooth_pos, canvas, processed,
                   drain_start, parse_vars>>

\* time.sleep(0.2); pygame.quit(); return (267-269)
Exit ==
    /\ pc = "grace"
    /\ pc' = "done"
    /\ UNCHANGED <<mode, emg_threshold, backend_vars, stop_event, data_q, nPushed,
                   running, latest, pen_down, last_pos, smooth_pos, canvas, processed,
                   drain_start, parse_vars>>

Next ==
    \/ SerialOpenFail
    \/ SerialOpen
    \/ UdpBindFail
    \/ UdpBind
    \/ BackendCheckStop
    \/ BackendTimeout
    \/ BackendReadError
    \/ BackendRecv
    \/ TickBegin
    \/ DrainGet
    \/ DrainDone
    \/ ProcessNone
    \/ ProcessSample
    \/ Render
    \/ Shutdown
    \/ Exit

Spec == Init /\ [][Next]_vars

\* ------------------------------------------------- parse_line on its own
\* Token texts with the value float() gives them, in hundredths
NumToks ==
    << [text |-> <<"1", "2", "0">>, val |-> 12000],
       [text |-> <<"-", "5">>, val |-> -500],
       [text |-> <<"0", ".", "1">>, val |-> 10],
       [text |-> <<"3", "7", "4", ".", "9", "9">>, val |-> 37499],
       [text |-> <<"+", "2">>, val |-> 200],
       [text |-> <<".", "5">>, val |-> 50],
       [text |-> <<"7", ".">>, val |-> 700] >>

\* Token texts float() raises ValueError on
BadToks ==
    { <<"a", "b", "c">>, <<"-">>, <<".">>, <<"1", "x">>, <<"1", ".", "2", ".", "3">> }

Seps == { <<",">>, <<" ">>, <<",", " ">>, <<"\t">> }

\* A line description: n tokens, the bad-th of them (0: none) is badtok, the
\* others are NumToks taken in rotation from first; sep between tokens
LineDescs ==
    [n : 0..MaxTokens, bad : {0}, badtok : {<<>>}, first : {0, 3}, sep : Seps]
    \cup { d \in [n : 1..MaxTokens, bad : 1..MaxTokens, badtok : BadToks,
                  first : {0}, sep : Seps] : d.bad <= d.n }

NumTokAt(d, i) == NumToks[((i + d.first) % Len(NumToks)) + 1]

TokText(d, i) == IF i = d.bad THEN d.badtok ELSE NumTokAt(d, i).text

\* the line as it comes off the wire: padded, newline-terminated
RenderLine(d) == <<" ">> \o Join([i \in 1..d.n |-> TokText(d, i)], d.sep) \o <<"\r", "\n">>

ParseLines == {RenderLine(d) : d \in LineDescs}

ParseInit ==
    /\ mode \in {"serial", "udp"}
    /\ emg_threshold = EMG_THRESHOLD * Centi
    /\ b_pc = "read"
    /\ b_exit = ""
    /\ handle = "open"
    /\ stop_event = FALSE
    /\ data_q = <<>>
    /\ nPushed = 0
    /\ pc = "loop"
    /\ running = TRUE
    /\ latest = None
    /\ pen_down = FALSE
    /\ last_pos = Center
    /\ smooth_pos = Center
    /\ canvas = <<>>
    /\ processed = <<>>
    /\ drain_start = None
    /\ line \in ParseLines
    /\ parsed = None

\* the reader's first iteration on the line it has read (93-101, 118-121)
ParseRecv ==
    /\ b_pc = "read"
    /\ LET text == IF mode = "udp" THEN Strip(line) ELSE line
           item == parse_line(text)
       IN /\ parsed' = item
          /\ IF text # <<>> /\ item # None
             THEN /\ data_q' = Put(data_q, item, nPushed + 1)
                  /\ nPushed' = nPushed + 1
             ELSE UNCHANGED <<data_q, nPushed>>
    /\ b_pc' = "loop"
    /\ UNCHANGED <<mode, emg_threshold, b_exit, handle, stop_event, main_vars, line>>

ParseNext == ParseRecv

ParseSpec == ParseInit /\ [][ParseNext]_vars

\* ================================================================ claims
InCanvas(p) ==
    /\ 0 <= p[1] /\ p[1] <= (screen_w - 1) * PosUnit
    /\ 0 <= p[2] /\ p[2] <= (screen_h - 1) * PosUnit

\* C1: in every reachable state the cursor position (smooth_pos and last_pos)
\* lies within [0, width-1] x [0, height-1].
C1_CursorInCanvas == InCanvas(smooth_pos) /\ InCanvas(last_pos)

LastOrNone(qq) == IF qq = <<>> THEN None ELSE qq[Len(qq)]

\* C2: when the drain loop ends and nothing was put on the queue since the
\* drain began, latest is the newest sample the queue held when the drain
\* began (None if it held nothing) and the queue is empty.
C2_DrainReturnsNewest ==
    [][(pc = "drain" /\ pc' = "process" /\ nPushed = drain_start.pushed)
        => (latest' = LastOrNone(drain_start.q) /\ data_q' = <<>>)]_vars

\* three samples were queued when the drain began, none was put since, the
\* drain has taken all three and holds the third
C2_Witness ==
    /\ pc = "drain"
    /\ data_q = <<>>
    /\ Len(drain_start.q) = 3
    /\ nPushed = drain_start.pushed
    /\ latest = drain_start.q[3]

\* C3: no sample is processed by two ticks: the seq numbers of the samples
\* the ticks have processed are pairwise different.
C3_ProcessedOnce ==
    \A i, j \in 1..Len(processed) : i # j => processed[i] # processed[j]

\* two ticks have processed a sample each and a third sample was discarded
C3_Witness == Len(processed) = 2 /\ nPushed = 3 /\ data_q = <<>> /\ pc = "render"

\* a step of the main loop that processes a sample
SampleStep == pc = "process" /\ latest # None /\ pc' = "render"

Band == EMG_HYSTERESIS * Centi

\* C4: on a tick with a sample, from Up the pen goes Down iff
\* emg > threshold + hysteresis; from Down it goes Up iff
\* emg < threshold - hysteresis; otherwise it stays as it was.
C4_Hysteresis ==
    [][SampleStep =>
        LET emg == latest.data.emg IN
        /\ ~pen_down => (pen_down' <=> emg > emg_threshold + Band)
        /\ pen_down => (~pen_down' <=> emg < emg_threshold - Band)]_vars

\* a sample with emg on the lower edge of the band was processed with the pen
\* Down, and the pen is still Down
C4_Witness ==
    /\ pc = "render" /\ latest # None
    /\ latest.data.emg = emg_threshold - Band
    /\ pen_down
    /\ Len(processed) >= 2

\* C5 as stated: threshold 400, hysteresis 25: from Up, 426 leaves the pen Up
\* and 426.01 puts it Down; from Down, 375 leaves it Down and 374.99 lifts it.
C5_AsStated ==
    [][(SampleStep /\ emg_threshold = 400 * Centi) =>
        LET emg == latest.data.emg IN
        /\ (~pen_down /\ emg = 42600) => ~pen_down'
        /\ (~pen_down /\ emg = 42601) => pen_down'
        /\ (pen_down /\ emg = 37500) => pen_down'
        /\ (pen_down /\ emg = 37499) => ~pen_down']_vars

\* C5 amended: threshold 400, hysteresis 25: from Up, 425 leaves the pen Up
\* and 426 and 426.01 put it Down; from Down, 375 leaves it Down and 374.99
\* lifts it.
C5_Amended ==
    [][(SampleStep /\ emg_threshold = 400 * Centi) =>
        LET emg == latest.data.emg IN
        /\ (~pen_down /\ emg = 42500) => ~pen_down'
        /\ (~pen_down /\ emg \in {42600, 42601}) => pen_down'
        /\ (pen_down /\ emg = 37500) => pen_down'
        /\ (pen_down /\ emg = 37499) => ~pen_down']_vars

\* a sample with emg = 425 was processed with the pen Up, and the pen is
\* still Up
C5_Witness ==
    /\ pc = "render" /\ latest # None
    /\ emg_threshold = 400 * Centi
    /\ latest.data.emg = 42500
    /\ ~pen_down
    /\ canvas = <<>>

\* C6: in a tick whose drain returned nothing, the steps after the drain
\* leave pen state, smoothed position and previous position unchanged and draw
\* nothing; the tick goes on to render.
C6_EmptyTick ==
    [][(pc \in {"process", "render"} /\ latest = None /\ pc' # pc) =>
        /\ pen_down' = pen_down
        /\ smooth_pos' = smooth_pos
        /\ last_pos' = last_pos
        /\ canvas' = canvas
        /\ processed' = processed
        /\ pc' = IF pc = "process" THEN "render" ELSE "loop"]_vars

\* a tick without a sample has reached render after an earlier tick put the
\* pen Down and moved the cursor
C6_Witness ==
    /\ pc = "render" /\ latest = None
    /\ pen_down
    /\ smooth_pos # Center
    /\ canvas # <<>>

\* C7: a tick with a sample draws the segment from the previous position to
\* the new one iff the pen is Down after this tick's hysteresis update, and
\* the previous position becomes the new position either way.
C7_DrawIffDown ==
    [][SampleStep =>
        /\ last_pos' = smooth_pos'
        /\ pen_down' =>
             /\ Len(canvas') = Len(canvas) + 2
             /\ SubSeq(canvas', 1, Len(canvas)) = canvas
             /\ canvas'[Len(canvas')].op = "line"
             /\ canvas'[Len(canvas')].from = <<PyInt(last_pos[1]), PyInt(last_pos[2])>>
             /\ canvas'[Len(canvas')].to = <<PyInt(smooth_pos'[1]), PyInt(smooth_pos'[2])>>
        /\ ~pen_down' => canvas' = canvas]_vars

\* a tick with a sample lifted the pen: it drew nothing new although earlier
\* ticks had drawn, and the previous position moved
C7_Witness ==
    /\ pc = "render" /\ latest # None
    /\ ~pen_down
    /\ canvas # <<>>
    /\ last_pos = smooth_pos
    /\ last_pos # Center
    /\ canvas[Len(canvas)].to # <<PyInt(last_pos[1]), PyInt(last_pos[2])>>

RenderTable == [d \in LineDescs |-> RenderLine(d)]

\* what the claim says parse_line returns for the line d describes
Expected(d) ==
    LET v(i) == NumTokAt(d, i).val IN
    IF d.n = 0 \/ d.bad # 0 \/ d.n < 4 THEN None
    ELSE IF d.n >= 7
    THEN [emg |-> v(1), type |-> "raw", acc |-> <<v(2), v(3), v(4)>>,
          gyro |-> <<v(5), v(6), v(7)>>, orient |-> None]
    ELSE [emg |-> v(1), type |-> "orient", acc |-> None, gyro |-> None,
          orient |-> <<v(2), v(3), v(4)>>]

\* C8: parse_line returns None for an empty line, a line with a token that
\* is not a number (wherever it stands) or fewer than 4 tokens; otherwise a
\* raw sample of the first 7 numbers for 7 or more tokens and an orient
\* sample of the first 4 numbers for 4 to 6 tokens.
C8_ParseLine ==
    b_pc = "loop" =>
        \A d \in LineDescs : RenderTable[d] = line => parsed = Expected(d)

\* a line of 8 numbers was parsed into a raw sample
C8_Witness ==
    /\ b_pc = "loop"
    /\ parsed # None
    /\ parsed.type = "raw"
    /\ \E d \in LineDescs : d.n = 8 /\ d.bad = 0 /\ RenderTable[d] = line

WellFormed(s) ==
    /\ s.type \in {"raw", "orient"}
    /\ s.type = "raw" => (s.acc # None /\ s.gyro # None /\ s.orient = None)
    /\ s.type = "orient" => (s.orient # None /\ s.acc = None /\ s.gyro = None)

\* the tick takes the else branch of 231-240
TakesFallback(s) ==
    /\ ~(s.type = "orient" /\ s.orient # None)
    /\ ~(s.type = "raw" /\ s.acc # None)

\* C9: every sample on the queue or held by a tick has exactly the payload of
\* its kind, and a tick about to process a sample does not take the fallback
\* branch.
C9_PayloadByKind ==
    /\ \A i \in 1..Len(data_q) : WellFormed(data_q[i].data)
    /\ latest # None => (WellFormed(latest.data) /\ ~TakesFallback(latest.data))

\* a tick is about to process a raw sample while an orient sample is queued
C9_Witness ==
    /\ pc = "process" /\ latest # None
    /\ latest.data.type = "raw"
    /\ \E i \in 1..Len(data_q) : data_q[i].data.type = "orient"

\* C10: when the endpoint cannot be opened or bound, the reader has set the
\* stop signal, has ended and has put nothing on the queue.
C10_OpenFailureStops ==
    b_exit \in {"no_pyserial", "open_failed", "bind_failed"} =>
        (stop_event /\ b_pc = "done" /\ nPushed = 0)

\* C11: a reader thread that has ended has closed the transport handle it
\* acquired, by whatever path it ended.
C11_HandleClosedAtExit == b_pc = "done" => handle # "open"

\* a transport read returns: a line, a timeout or an error
BackendReadReturns == BackendTimeout \/ BackendReadError \/ BackendRecv

\* The reader thread is scheduled, and each of its reads returns within the
\* timeout set at 84 (timeout=1) and 108 (settimeout(1.0)).
ReaderFairSpec == Spec /\ WF_vars(BackendCheckStop) /\ WF_vars(BackendReadReturns)

Drained == data_q = <<>> /\ (pc \in {"drain", "process"} => latest = None)

\* C13: a read error ends the reader thread and touches nothing of the main
\* loop; from then on no sample arrives, the main loop leaves its loop only
\* through a quit or escape event, and once the queue is drained the pen state
\* and the cursor position stay as they are.
C13_ReadErrorDegrades ==
    [][(b_exit' = "read_error") =>
        /\ b_pc' = "done"
        /\ nPushed' = nPushed
        /\ b_exit # "read_error" => UNCHANGED <<main_vars, stop_event, data_q>>
        /\ (running /\ ~running') => (pc = "loop" /\ pc' = "drain")
        /\ stop_event' # stop_event => (pc = "loop" /\ ~running)
        /\ (b_exit = "read_error" /\ Drained) =>
             /\ pen_down' = pen_down
             /\ smooth_pos' = smooth_pos
             /\ last_pos' = last_pos
             /\ Drained']_vars

\* after a read error the queue was drained with the pen Down, and a later
\* tick without a sample has reached render with the pen still Down
C13_Witness ==
    /\ b_exit = "read_error"
    /\ pc = "render" /\ latest = None
    /\ data_q = <<>>
    /\ pen_down
    /\ processed # <<>>
    /\ running

\* the target acc_to_xy would return without its clamp (145-152)
UnclampedAccTarget(sample, lp) ==
    <<lp[1] + MulDiv(sample.acc[1] * (SENSITIVITY \div 10), PosUnit, Centi),
      lp[2] - MulDiv(sample.acc[2] * (SENSITIVITY \div 10), PosUnit, Centi)>>

\* C14: a tick that processes a raw sample whose unclamped target lies outside
\* the canvas leaves the cursor inside the canvas, whatever came before.
C14_AccCursorInCanvas ==
    [][(SampleStep /\ latest.data.type = "raw"
          /\ ~InCanvas(UnclampedAccTarget(latest.data, last_pos)))
        => InCanvas(smooth_pos')]_vars

\* ----------------------------------------- one reading, sent again and again
\* the orientation lines among Lines
OrientLines == {CsvLine(r) : r \in {r \in Readings : Len(r) < 7}}

\* the armband holds still: every line it sends is the same orientation line
ConvergeInit ==
    /\ mode \in {"serial", "udp"}
    /\ emg_threshold = EMG_THRESHOLD * Centi
    /\ b_pc = "start"
    /\ b_exit = ""
    /\ handle = "none"
    /\ stop_event = FALSE
    /\ data_q = <<>>
    /\ nPushed = 0
    /\ pc = "loop"
    /\ running = TRUE
    /\ latest = None
    /\ pen_down = FALSE
    /\ last_pos = Center
    /\ smooth_pos = Center
    /\ canvas = <<>>
    /\ processed = <<>>
    /\ drain_start = None
    /\ line \in OrientLines
    /\ parsed = None

\* the reader's loop body on that line (93-101, 112-121)
BackendRecvSame ==
    /\ b_pc = "read"
    /\ nPushed < MaxPush
    /\ LET text == IF mode = "udp" THEN Strip(line) ELSE line
           item == parse_line(text)
       IN /\ parsed' = item
          /\ IF text # <<>> /\ item # None
             THEN /\ data_q' = Put(data_q, item, nPushed + 1)
                  /\ nPushed' = nPushed + 1
             ELSE UNCHANGED <<data_q, nPushed>>
    /\ b_pc' = "loop"
    /\ UNCHANGED <<mode, emg_threshold, b_exit, handle, stop_event, main_vars, line>>

ConvergeNext ==
    \/ SerialOpenFail
    \/ SerialOpen
    \/ UdpBindFail
    \/ UdpBind
    \/ BackendCheckStop
    \/ BackendTimeout
    \/ BackendReadError
    \/ BackendRecvSame
    \/ TickBegin
    \/ DrainGet
    \/ DrainDone
    \/ ProcessNone
    \/ ProcessSample
    \/ Render
    \/ Shutdown
    \/ Exit

ConvergeSpec == ConvergeInit /\ [][ConvergeNext]_vars

Abs(x) == IF x < 0 THEN -x ELSE x

\* on one axis: after n ticks on target t from s0, the smoothed value s is at
\* (s0 - t) * (SMOOTHING_NUM / SMOOTHING_DEN)^n from t, on the same side
GeometricGap(s0, s, t, n) ==
    /\ (s0 - t) % (SMOOTHING_DEN ^ n) = 0
    /\ s - t = (SMOOTHING_NUM ^ n) * ((s0 - t) \div (SMOOTHING_DEN ^ n))
    /\ (n > 0 /\ s0 # t) => Abs(s - t) < Abs(s0 - t)
    /\ (s0 > t) => (s > t)
    /\ (s0 < t) => (s < t)

\* C15: with the same orientation sample processed on n ticks from the start,
\* on each axis |S_n - T| = |S0 - T| * 0.85^n, so the gap shrinks at every
\* tick and the smoothed value stays on its side of T.
C15_SmoothingConverges ==
    LET t == Target(parse_line(line), Center)
        n == Len(processed)
    IN /\ GeometricGap(Center[1], smooth_pos[1], t[1], n)
       /\ GeometricGap(Center[2], smooth_pos[2], t[2], n)

\* MaxPush ticks have processed the same sample and the cursor is still
\* short of the target on both axes
C15_Witness ==
    /\ Len(processed) = MaxPush
    /\ pc = "render"
    /\ smooth_pos[1] # Target(parse_line(line), Center)[1]
    /\ smooth_pos[2] # Target(parse_line(line), Center)[2]
    /\ smooth_pos # Center

\* a step of the main thread
MainStep ==
    \/ TickBegin
    \/ DrainGet
    \/ DrainDone
    \/ ProcessNone
    \/ ProcessSample
    \/ Render
    \/ Shutdown
    \/ Exit

\* The main thread is scheduled; nothing is assumed of the reader thread,
\* which may run at any speed or not at all.
MainFairSpec == Spec /\ WF_vars(MainStep)

\* C16: once the main loop has ended, main sets the stop signal and goes on
\* to return, whether or not the reader thread has ended.
C16_MainReturns ==
    /\ (pc = "loop" /\ ~running) ~> (pc = "grace" /\ stop_event)
    /\ (pc = "grace") ~> (pc = "done")

\* main has returned while the reader thread is still in its loop
C16_Witness ==
    /\ pc = "done"
    /\ stop_event
    /\ b_pc \in {"loop", "read"}
    /\ handle = "open"

\* whole degrees of an angle given in hundredths
Degrees(a) == a \div Centi

\* C17: the orientation strategy gives x = (yaw/180)*(w/2) + w/2 and
\* y = -(pitch/90)*(h/2) + h/2, unclamped: for yaw = 180, pitch = 0 the target
\* is x = width, y = height/2.
C17_OrientTarget ==
    (latest # None /\ latest.data.type = "orient") =>
        LET o == latest.data.orient
            t == Target(latest.data, last_pos)
        IN /\ (Degrees(o[1]) * (screen_w \div 2)) % 180 = 0
           /\ (Degrees(o[2]) * (screen_h \div 2)) % 90 = 0
           /\ t[1] = ((Degrees(o[1]) * (screen_w \div 2)) \div 180 + screen_w \div 2) * PosUnit
           /\ t[2] = ((screen_h \div 2) - (Degrees(o[2]) * (screen_h \div 2)) \div 90) * PosUnit
           /\ (o[1] = 180 * Centi /\ o[2] = 0) =>
                 t = <<screen_w * PosUnit, (screen_h \div 2) * PosUnit>>

\* a tick has processed the sample with yaw = 180, pitch = 0 as its first
\* sample: the cursor went 15% of the way from the center to x = width
C17_Witness ==
    /\ pc = "render" /\ latest # None
    /\ latest.data.orient = <<180 * Centi, 0, 0>>
    /\ Len(processed) = 1
    /\ smooth_pos = <<Smooth(Center[1], screen_w * PosUnit), Center[2]>>

\* ------------------------------------- a reader that never runs out of lines
\* The reader's loop body on the line of a still armband, with no limit on
\* the number of puts: the puts are not counted (every sample carries seq 1)
\* and the queue holds at most MaxPush samples, so that the reader can go on
\* for ever in a finite state space (93-101, 112-121)
BackendRecvFlood ==
    /\ b_pc = "read"
    /\ Len(data_q) < MaxPush
    /\ LET text == IF mode = "udp" THEN Strip(line) ELSE line
           item == parse_line(text)
       IN /\ parsed' = item
          /\ IF text # <<>> /\ item # None
             THEN data_q' = Put(data_q, item, 1)
             ELSE UNCHANGED data_q
    /\ b_pc' = "loop"
    /\ UNCHANGED <<mode, emg_threshold, b_exit, handle, stop_event, nPushed, main_vars,
                   line>>

\* the reader thread and the first tick of the main loop, up to its render
FloodNext ==
    \/ SerialOpenFail
    \/ SerialOpen
    \/ UdpBindFail
    \/ UdpBind
    \/ BackendCheckStop
    \/ BackendTimeout
    \/ BackendReadError
    \/ BackendRecvFlood
    \/ TickBegin
    \/ DrainGet
    \/ DrainDone
    \/ ProcessNone
    \/ ProcessSample

FloodMainStep == TickBegin \/ DrainGet \/ DrainDone \/ ProcessNone \/ ProcessSample

FloodReadReturns == BackendTimeout \/ BackendReadError \/ BackendRecvFlood

\* both threads are scheduled and every read returns
FloodSpec ==
    /\ ConvergeInit
    /\ [][FloodNext]_vars
    /\ WF_vars(FloodMainStep)
    /\ WF_vars(BackendCheckStop)
    /\ WF_vars(FloodReadReturns)

\* C18 as stated: every drain loop finishes and the tick reaches its render
\* step, even when the reader keeps putting samples while the drain runs.
C18_AsStated == (pc = "drain") ~> (pc = "render")

\* C18 amended: a drain iteration never waits (it takes a sample or ends the
\* loop at once, and on an empty queue it ends), and the drain loop finishes
\* and the tick reaches render provided the reader puts only finitely many
\* samples.
C18_Amended ==
    /\ [](pc = "drain" => ((data_q # <<>> /\ ENABLED DrainGet)
                            \/ (data_q = <<>> /\ ENABLED DrainDone)))
    /\ (<>[][Len(data_q') <= Len(data_q)]_vars) => ((pc = "drain") ~> (pc = "render"))

\* the drain began on an empty queue, has taken a sample the reader put while
\* it ran, finds the queue empty and is about to end
C18_Witness ==
    /\ pc = "drain"
    /\ drain_start.q = <<>>
    /\ latest # None
    /\ data_q = <<>>

\* C19: at every tick boundary last_pos equals smooth_pos, and both are the
\* canvas center until a sample has been processed; hence a tick that
\* processes a sample computes its target from the smoothed position and
\* draws with the previous tick's cursor as the start of its segment.
C19_LastIsSmoothed ==
    /\ [](/\ last_pos = smooth_pos
          /\ processed = <<>> => last_pos = Center)
    /\ [][SampleStep =>
            /\ smooth_pos' = <<Smooth(smooth_pos[1], Target(latest.data, smooth_pos)[1]),
                               Smooth(smooth_pos[2], Target(latest.data, smooth_pos)[2])>>
            /\ canvas' = Drawn(canvas, pen_down', smooth_pos, smooth_pos')
            /\ last_pos' = smooth_pos']_vars

\* the second processed sample is an acceleration sample, taken after the
\* cursor has left the center
C19_Witness ==
    /\ pc = "render"
    /\ Len(processed) = 2
    /\ latest # None
    /\ latest.data.type = "raw"
    /\ last_pos = smooth_pos
    /\ last_pos # Center
    /\ canvas # <<>>

\* C20: samples are processed in push order. The samples processed so far
\* were pushed in strictly increasing order, every sample still in the queue
\* was pushed after all of them, and the sample a drain holds was pushed after
\* every processed sample and before every sample still queued; so a sample
\* the drain has passed over is never processed by a later tick.
C20_PushOrder ==
    /\ \A i, j \in 1..Len(processed) : i < j => processed[i] < processed[j]
    /\ \A k \in 1..Len(data_q) :
         /\ \A i \in 1..Len(processed) : processed[i] < data_q[k].seq
         /\ \A m \in 1..Len(data_q) : k < m => data_q[k].seq < data_q[m].seq
    /\ (pc \in {"drain", "process"} /\ latest # None) =>
         /\ \A i \in 1..Len(processed) : processed[i] < latest.seq
         /\ \A k \in 1..Len(data_q) : latest.seq < data_q[k].seq

\* the first tick passed over sample 1 and processed sample 2; the second
\* tick processed sample 3
C20_Witness == processed = <<2, 3>> /\ pc = "render" /\ data_q = <<>>

====
